---------------------------- MODULE Spec2Model ----------------------------
(***************************************************************************)
(* A model of storyscript's tree-to-IR compiler (compiler/objects.py) and  *)
(* of the error classifier exceptions/StoryError.py.                       *)
(*                                                                         *)
(* Python text is a sequence of one-character strings.  A CST node is a    *)
(* record [tok, data, value, children]: a lark Token has tok = TRUE, its   *)
(* type in data and its text in value; a Tree has tok = FALSE, its rule    *)
(* name in data and its children in children.  A compiled value is a       *)
(* record with an OBJECT field: the '$OBJECT' discriminator for the IR     *)
(* dictionaries, and "py:str", "py:int", "py:bool", "py:None", "py:list"   *)
(* for bare Python values.  A raised exception is the value Raise.         *)
(***************************************************************************)
EXTENDS Integers, Sequences, FiniteSets, TLC

VARIABLES op, tree, result,        \* compiler: entry point, input CST, output
          text, item,              \* string templates: body, output
          error, story, error_code, last, hint_out, calls  \* StoryError object

vars == <<op, tree, result, text, item,
          error, story, error_code, last, hint_out, calls>>

-----------------------------------------------------------------------------
(* Bounds of the model *)

MaxLen == 7      \* longest string body
MaxFrags == 2    \* most fragments after the base of a path
MaxItems == 2    \* most entries of a list or dict literal
MaxArgs == 2     \* most argument productions of a mutation
MaxOps == 3      \* most process() calls on one StoryError

-----------------------------------------------------------------------------
(* Python values *)

Raise == [OBJECT |-> "raise"]
None == [OBJECT |-> "py:None"]
PyStr(s) == [OBJECT |-> "py:str", value |-> s]
PyInt(n) == [OBJECT |-> "py:int", value |-> n]
PyBool(b) == [OBJECT |-> "py:bool", value |-> b]
PyList(xs) == [OBJECT |-> "py:list", items |-> xs]

Raised(v) == v.OBJECT = "raise"

AnyRaised(xs) == \E i \in 1..Len(xs) : Raised(xs[i])

-----------------------------------------------------------------------------
(* CST nodes: lark Token and storyscript.parser.Tree *)

Token(type, value) == [tok |-> TRUE, data |-> type, value |-> value, children |-> <<>>]

Tree(data, children) == [tok |-> FALSE, data |-> data, value |-> <<>>, children |-> children]

NoNode == [tok |-> FALSE, data |-> "py:None", value |-> <<>>, children |-> <<>>]

IsNone(n) == n.data = "py:None"

IsTree(n) == ~n.tok /\ ~IsNone(n)

Child(t, index) == IF index < Len(t.children) THEN t.children[index + 1] ELSE NoNode

RECURSIVE Walk(_, _, _)
Walk(t, name, i) ==
    IF i > Len(t.children) THEN NoNode
    ELSE IF IsTree(t.children[i]) /\ t.children[i].data = name THEN t.children[i]
    ELSE Walk(t, name, i + 1)

Slot(t, name) == Walk(t, name, 1)

-----------------------------------------------------------------------------
(* Text helpers: str slicing, re.findall, str.replace *)

\* Mutant: the slice keeps the first and last character
Slice1_keeps_quotes(s) == s

Slice1(s) == SubSeq(s, 2, Len(s) - 1)

RECURSIVE IndexOf(_, _, _)
IndexOf(s, c, i) ==
    IF i > Len(s) THEN 0
    ELSE IF s[i] = c THEN i
    ELSE IndexOf(s, c, i + 1)

RECURSIVE FindAllFrom(_, _)
FindAllFrom(s, i) ==
    LET p == IndexOf(s, "{", i)
        q == IF p = 0 THEN 0 ELSE IndexOf(s, "}", p + 1)
    IN  IF p = 0 \/ q = 0 THEN <<>>
        ELSE <<SubSeq(s, p + 1, q - 1)>> \o FindAllFrom(s, q + 1)

FindAll(s) == FindAllFrom(s, 1)

StartsAt(s, old, i) ==
    /\ i + Len(old) - 1 <= Len(s)
    /\ SubSeq(s, i, i + Len(old) - 1) = old

RECURSIVE ReplaceFrom(_, _, _, _)
ReplaceFrom(s, old, new, i) ==
    IF i > Len(s) THEN <<>>
    ELSE IF StartsAt(s, old, i) THEN new \o ReplaceFrom(s, old, new, i + Len(old))
    ELSE <<s[i]>> \o ReplaceFrom(s, old, new, i + 1)

Replace(s, old, new) == ReplaceFrom(s, old, new, 1)

-----------------------------------------------------------------------------
(* Objects: paths and string templates *)

RECURSIVE path(_)

FragmentValue(child) ==
    IF IsNone(child) THEN Raise
    ELSE IF child.tok THEN PyStr(child.value)
    ELSE IF child.data = "string" THEN
        (IF IsNone(Child(child, 0)) THEN Raise
         ELSE IF ~Child(child, 0).tok THEN Raise
         ELSE PyStr(Slice1(Child(child, 0).value)))
    ELSE IF child.data = "path" THEN path(child)
    ELSE None

RECURSIVE NamesFrom(_, _)
NamesFrom(t, i) ==
    IF i > Len(t.children) THEN <<>>
    ELSE LET fragment == t.children[i]
         IN  <<IF fragment.tok THEN Raise ELSE FragmentValue(Child(fragment, 0))>>
             \o NamesFrom(t, i + 1)

names(t) ==
    IF IsNone(Child(t, 0)) THEN <<Raise>>
    ELSE <<IF Child(t, 0).tok THEN PyStr(Child(t, 0).value) ELSE None>> \o NamesFrom(t, 2)

path(t) ==
    LET ns == names(t)
    IN  IF AnyRaised(ns) THEN Raise ELSE [OBJECT |-> "path", paths |-> ns]

\* Mutant: a repeated placeholder name gets no substitution of its own
RECURSIVE placeholders_values_deduplicated(_)
placeholders_values_deduplicated(matches) ==
    IF matches = <<>> THEN <<>>
    ELSE LET front == SubSeq(matches, 1, Len(matches) - 1)
             final == matches[Len(matches)]
         IN  placeholders_values_deduplicated(front)
             \o (IF \E i \in 1..Len(front) : front[i] = final THEN <<>>
                 ELSE <<path(Tree("path", <<Token("WORD", final)>>))>>)

placeholders_values(matches) ==
    [i \in 1..Len(matches) |-> path(Tree("path", <<Token("WORD", matches[i])>>))]

RECURSIVE replace_placeholders(_, _)
replace_placeholders(string, matches) ==
    IF matches = <<>> THEN string
    ELSE replace_placeholders(Replace(string, <<"{">> \o Head(matches) \o <<"}">>, <<"{", "}">>),
                              Tail(matches))

string(t) ==
    IF IsNone(Child(t, 0)) \/ ~Child(t, 0).tok THEN Raise
    ELSE LET s == Slice1(Child(t, 0).value)
             matches == FindAll(s)
         IN  IF matches = <<>> THEN [OBJECT |-> "string", string |-> s]
             ELSE [OBJECT |-> "string",
                   string |-> replace_placeholders(s, matches),
                   values |-> placeholders_values(matches)]

-----------------------------------------------------------------------------
(* Objects: scalars *)

DigitValue(c) ==
    CASE c = "0" -> 0 [] c = "1" -> 1 [] c = "2" -> 2 [] c = "3" -> 3 [] c = "4" -> 4
      [] c = "5" -> 5 [] c = "6" -> 6 [] c = "7" -> 7 [] c = "8" -> 8 [] c = "9" -> 9
      [] OTHER -> -1

RECURSIVE ParseDigits(_, _)
ParseDigits(s, acc) ==
    IF s = <<>> THEN acc
    ELSE IF DigitValue(Head(s)) < 0 THEN -1
    ELSE ParseDigits(Tail(s), 10 * acc + DigitValue(Head(s)))

ParseInt(s) ==
    LET neg == s # <<>> /\ Head(s) = "-"
        digits == IF neg THEN Tail(s) ELSE s
        n == ParseDigits(digits, 0)
    IN  IF digits = <<>> \/ n < 0 THEN Raise
        ELSE PyInt(IF neg THEN 0 - n ELSE n)

number(t) ==
    IF IsNone(Child(t, 0)) \/ ~Child(t, 0).tok THEN Raise
    ELSE ParseInt(Child(t, 0).value)

\* Mutant: the comparison ignores case
boolean_ignores_case(t) ==
    IF IsNone(Child(t, 0)) THEN Raise
    ELSE IF Child(t, 0).tok /\ Child(t, 0).value \in {<<"t", "r", "u", "e">>, <<"T", "r", "u", "e">>,
                                                       <<"T", "R", "U", "E">>}
        THEN PyBool(TRUE)
    ELSE PyBool(FALSE)

boolean(t) ==
    IF IsNone(Child(t, 0)) THEN Raise
    ELSE IF Child(t, 0).tok /\ Child(t, 0).value = <<"t", "r", "u", "e">> THEN PyBool(TRUE)
    ELSE PyBool(FALSE)

types(t) ==
    IF IsNone(Child(t, 0)) THEN Raise
    ELSE [OBJECT |-> "type",
          type |-> IF Child(t, 0).tok THEN PyStr(Child(t, 0).value) ELSE None]

-----------------------------------------------------------------------------
(* Objects: values, lists and dicts (mutually recursive) *)

RECURSIVE values(_), ListFrom(_, _), ObjectsFrom(_, _, _)

Unbound == [OBJECT |-> "py:unbound"]

list(t) ==
    LET items == ListFrom(t, 1)
    IN  IF AnyRaised(items) THEN Raise ELSE [OBJECT |-> "list", items |-> items]

ListFrom(t, i) ==
    IF i > Len(t.children) THEN <<>>
    ELSE <<values(t.children[i])>> \o ListFrom(t, i + 1)

\* Mutant: every key is resolved as a path
ObjectKey_always_path(child, previous) ==
    IF IsNone(child) \/ child.tok THEN Raise ELSE path(child)

ObjectKey(child, previous) ==
    IF IsNone(child) \/ child.tok THEN Raise
    ELSE IF child.data = "string" THEN string(child)
    ELSE IF child.data = "path" THEN path(child)
    ELSE IF previous.OBJECT = "py:unbound" THEN Raise
    ELSE previous

ObjectsFrom(t, i, previous) ==
    IF i > Len(t.children) THEN <<>>
    ELSE LET entry == t.children[i]
             key == IF entry.tok THEN Raise ELSE ObjectKey(Child(entry, 0), previous)
             value == IF entry.tok THEN Raise ELSE values(Child(entry, 1))
         IN  IF Raised(key) \/ Raised(value) THEN <<Raise>>
             ELSE <<PyList(<<key, value>>)>> \o ObjectsFrom(t, i + 1, key)

objects(t) ==
    LET items == ObjectsFrom(t, 1, Unbound)
    IN  IF AnyRaised(items) THEN Raise ELSE [OBJECT |-> "dict", items |-> items]

values(t) ==
    IF IsNone(t) \/ t.tok \/ IsNone(Child(t, 0)) THEN Raise
    ELSE LET subtree == Child(t, 0)
         IN  IF subtree.tok THEN (IF subtree.data = "NAME" THEN path(t) ELSE None)
             ELSE IF subtree.data = "string" THEN string(subtree)
             ELSE IF subtree.data = "boolean" THEN boolean(subtree)
             ELSE IF subtree.data = "list" THEN list(subtree)
             ELSE IF subtree.data = "number" THEN number(subtree)
             ELSE IF subtree.data = "objects" THEN objects(subtree)
             ELSE IF subtree.data = "types" THEN types(subtree)
             ELSE None

-----------------------------------------------------------------------------
(* Objects: arguments, mutations and expressions *)

RECURSIVE FindData(_, _), FindDataIn(_, _, _)
FindData(t, name) ==
    (IF t.data = name THEN <<t>> ELSE <<>>) \o FindDataIn(t, name, 1)

FindDataIn(t, name, i) ==
    IF i > Len(t.children) THEN <<>>
    ELSE (IF IsTree(t.children[i]) THEN FindData(t.children[i], name) ELSE <<>>)
         \o FindDataIn(t, name, i + 1)

argument(t) ==
    IF IsNone(Child(t, 0)) THEN Raise
    ELSE LET value == values(Child(t, 1))
         IN  IF Raised(value) THEN Raise
             ELSE [OBJECT |-> "argument",
                   name |-> IF Child(t, 0).tok THEN PyStr(Child(t, 0).value) ELSE None,
                   argument |-> value]

arguments(t) ==
    LET found == FindData(t, "arguments")
    IN  [i \in 1..Len(found) |-> argument(found[i])]

TokenText(n) == IF n.tok THEN PyStr(n.value) ELSE None

\* Mutant: the command slot does not override the leading name
mutation_name_ignores_command(first, command) ==
    IF IsNone(first) THEN Raise ELSE TokenText(first)

mutation_name(first, command) ==
    IF IsNone(first) THEN Raise
    ELSE IF IsNone(command) THEN TokenText(first)
    ELSE IF IsNone(Child(command, 0)) THEN Raise
    ELSE TokenText(Child(command, 0))

mutation(t) ==
    LET args == IF IsNone(Slot(t, "arguments")) THEN <<>>
                ELSE arguments(Slot(t, "arguments"))
        name == mutation_name(Child(t, 0), Slot(t, "command"))
    IN  IF Raised(name) \/ AnyRaised(args) THEN Raise
        ELSE [OBJECT |-> "mutation", mutation |-> name, arguments |-> args]

Format(n) ==
    IF n.tok THEN n.value
    ELSE IF IsNone(n) THEN <<"N", "o", "n", "e">>
    ELSE <<"Tree(", n.data, ")">>

fill_expression(left_handside, operator, right_handside) ==
    left_handside \o <<" ">> \o operator \o <<" ">> \o right_handside

Marker == <<"{", "}">>

\* Mutant: a comparison-less value is returned without the sequence around it
passthrough_bare(left_handside) == left_handside

passthrough(left_handside) == PyList(<<left_handside>>)

expression(t) ==
    IF ~IsNone(Slot(t, "values")) THEN
        LET operator == Slot(t, "operator")
            vs == <<values(Slot(t, "values")), values(Child(t, 2))>>
        IN  IF IsNone(operator) \/ IsNone(Child(operator, 0)) THEN Raise
            ELSE IF AnyRaised(vs) THEN Raise
            ELSE [OBJECT |-> "expression",
                  expression |-> fill_expression(Marker,
                                     IF Child(operator, 0).tok THEN Child(operator, 0).value
                                     ELSE Format(NoNode), Marker),
                  values |-> vs]
    ELSE IF IsNone(Slot(t, "path_value")) THEN Raise
    ELSE LET left_handside == values(Child(Slot(t, "path_value"), 0))
             comparison == Child(t, 1)
         IN  IF Raised(left_handside) THEN Raise
             ELSE IF IsNone(comparison) THEN passthrough(left_handside)
             ELSE LET right_handside ==
                          IF IsNone(Child(t, 2)) \/ Child(t, 2).tok THEN Raise
                          ELSE values(Child(Child(t, 2), 0))
                  IN  IF Raised(right_handside) \/ comparison.tok THEN Raise
                      ELSE PyList(<<[OBJECT |-> "expression",
                                     expression |-> fill_expression(Marker,
                                                        Format(Child(comparison, 0)), Marker),
                                     values |-> <<left_handside, right_handside>>]>>)

-----------------------------------------------------------------------------
(* StoryError (hint texts are written without their backquotes) *)

Tags == {"service-name", "arguments-noservice", "return-outside",
         "variables-backslash", "variables-dash"}

get_line(e, st) == st[e.line]

\* Mutant: the intention of the line is looked at before the error's tag
identify_intention_first(e, st) ==
    LET intention == get_line(e, st)
    IN  IF e.type = "UnexpectedToken" /\ intention.assignment THEN "E0007"
        ELSE IF e.type = "UnexpectedCharacters" /\ intention.is_function THEN "E0008"
        ELSE IF e.tag = "service-name" THEN "E0002"
        ELSE IF e.tag = "arguments-noservice" THEN "E0003"
        ELSE IF e.tag = "return-outside" THEN "E0004"
        ELSE IF e.tag = "variables-backslash" THEN "E0005"
        ELSE IF e.tag = "variables-dash" THEN "E0006"
        ELSE "E0001"

identify(e, st) ==
    IF e.tag = "service-name" THEN "E0002"
    ELSE IF e.tag = "arguments-noservice" THEN "E0003"
    ELSE IF e.tag = "return-outside" THEN "E0004"
    ELSE IF e.tag = "variables-backslash" THEN "E0005"
    ELSE IF e.tag = "variables-dash" THEN "E0006"
    ELSE LET intention == get_line(e, st)
         IN  IF e.type = "UnexpectedToken" /\ intention.assignment THEN "E0007"
             ELSE IF e.type # "UnexpectedToken" /\ e.type = "UnexpectedCharacters"
                     /\ intention.is_function THEN "E0008"
             ELSE "E0001"

hint(code) ==
    IF code = "E0002" THEN "A service name can't contain ."
    ELSE IF code = "E0003" THEN "You have defined an argument, but not a service"
    ELSE IF code = "E0004" THEN "return is allowed only inside functions"
    ELSE IF code = "E0005" THEN "A variable name can't contain /"
    ELSE IF code = "E0006" THEN "A variable name can't contain -"
    ELSE IF code = "E0007" THEN "Missing value after ="
    ELSE IF code = "E0008" THEN "You have misspelt function"
    ELSE ""

ErrorCodes ==
    [E0001 |-> "", E0002 |-> "A service name can't contain .",
     E0003 |-> "You have defined an argument, but not a service",
     E0004 |-> "return is allowed only inside functions",
     E0005 |-> "A variable name can't contain /",
     E0006 |-> "A variable name can't contain -",
     E0007 |-> "Missing value after =",
     E0008 |-> "You have misspelt function"]

-----------------------------------------------------------------------------
(* Inputs: concrete syntax trees the entry points are called with *)

SeqsUpTo(S, n) == UNION {[1..k -> S] : k \in 0..n}

Quote == "\""

Idents == {<<"a">>, <<"b">>}

NameTokens == {Token("NAME", n) : n \in Idents}

StringNode(body) == Tree("string", <<Token("DOUBLE_QUOTED", <<Quote>> \o body \o <<Quote>>)>>)

ValuesNode(child) == Tree("values", <<child>>)

NumberNode(digits) == Tree("number", <<Token("INT", digits)>>)

BooleanTexts ==
    {<<"t", "r", "u", "e">>, <<"f", "a", "l", "s", "e">>, <<"T", "r", "u", "e">>,
     <<"T", "R", "U", "E">>, <<"t", "r", "u">>, <<"t", "r", "u", "e", "e">>, <<>>}

BooleanNodes == {Tree("boolean", <<Token("BOOL", b)>>) : b \in BooleanTexts}

KeyStrings == {StringNode(<<"k">>), StringNode(<<"{", "a", "}">>)}

FragmentStrings == {StringNode(<<"k">>), StringNode(<<>>)}

\* Children of a path fragment the grammar never produces
BadFragmentChildren == {NumberNode(<<"7">>)}

InnerFragments ==
    {Tree("path_fragment", <<c>>) : c \in {Token("NAME", <<"b">>), StringNode(<<"k">>)}}

InnerPaths ==
    {Tree("path", <<b>> \o fs) : b \in NameTokens, fs \in SeqsUpTo(InnerFragments, 1)}

Fragments ==
    {Tree("path_fragment", <<c>>) :
        c \in NameTokens \cup FragmentStrings \cup InnerPaths \cup BadFragmentChildren}

PathTrees ==
    {Tree("path", <<b>> \o fs) : b \in NameTokens, fs \in SeqsUpTo(Fragments, MaxFrags)}

\* Value nodes without nested lists or dicts
GoodLeaves ==
    {ValuesNode(c) : c \in KeyStrings \cup {NumberNode(<<"4", "2">>), NumberNode(<<"-", "7">>),
                                            Tree("types", <<Token("INT_TYPE", <<"i", "n", "t">>)>>)}
                           \cup {b \in BooleanNodes : Len(b.children[1].value) = 4}
                           \cup NameTokens}
    \cup {Tree("values", <<Token("NAME", <<"a">>), f>>) : f \in InnerFragments}

\* Value nodes the grammar never produces
BadLeaves == {ValuesNode(Token("WORD", <<"w">>)), ValuesNode(Tree("bogus", <<>>))}

SmallLeaves ==
    {ValuesNode(NumberNode(<<"4", "2">>)), ValuesNode(Token("NAME", <<"a">>)),
     ValuesNode(StringNode(<<"{", "a", "}">>))} \cup {ValuesNode(Token("WORD", <<"w">>))}

KeyPaths == {Tree("path", <<Token("NAME", <<"a">>)>>),
             Tree("path", <<Token("NAME", <<"a">>), Tree("path_fragment", <<Token("NAME", <<"b">>)>>)>>)}

\* Dict keys the grammar never produces
BadKeys == {NumberNode(<<"7">>)}

InnerList == ValuesNode(Tree("list", <<ValuesNode(NumberNode(<<"4", "2">>))>>))

InnerObjects ==
    ValuesNode(Tree("objects", <<Tree("key_value", <<StringNode(<<"k">>),
                                                     ValuesNode(Token("NAME", <<"b">>))>>)>>))

KeyValues ==
    {Tree("key_value", <<k, v>>) :
        k \in KeyStrings \cup KeyPaths \cup BadKeys, v \in SmallLeaves \cup {InnerList}}

ObjectsTrees == {Tree("objects", es) : es \in SeqsUpTo(KeyValues, MaxItems)}

ListNodes ==
    {ValuesNode(Tree("list", vs)) :
        vs \in SeqsUpTo(SmallLeaves \cup {InnerList, InnerObjects}, MaxItems)}

ValueNodes == GoodLeaves \cup BadLeaves \cup ListNodes

ArgumentNodes ==
    {Tree("arguments", <<n, v>>) : n \in NameTokens, v \in SmallLeaves}

CommandNodes == {Tree("command", <<Token("WORD", c)>>) : c \in {<<"g", "o">>}}

MutationTrees ==
    {Tree("mutation", <<n>> \o args \o cmd) :
        n \in {Token("NAME", <<"r", "u", "n">>)},
        args \in SeqsUpTo(ArgumentNodes, MaxArgs),
        cmd \in {<<>>} \cup {<<c>> : c \in CommandNodes}}
    \cup {Tree("service_fragment", <<c>> \o args) :
             c \in CommandNodes, args \in SeqsUpTo(ArgumentNodes, 1)}

OperatorNodes == {Tree("operator", <<Token("OP", o)>>) : o \in {<<"+">>, <<"*">>}}

ComparisonNodes ==
    {Tree("comparisons", <<Token("CMP", o)>>) : o \in {<<">">>, <<"=", "=">>}}

PathValues == {Tree("path_value", <<v>>) : v \in SmallLeaves}

ExpressionTrees ==
    {Tree("expression", <<l, o, r>>) : l \in SmallLeaves, o \in OperatorNodes, r \in SmallLeaves}
    \cup {Tree("if_statement", <<l>>) : l \in PathValues}
    \cup {Tree("if_statement", <<l, c, r>>) :
             l \in PathValues, c \in ComparisonNodes, r \in PathValues}

-----------------------------------------------------------------------------
(* The compiler: every entry point is a stateless call on a CST *)

Idle == [OBJECT |-> "py:idle"]

stringVars == <<text, item>>

errorVars == <<error, story, error_code, last, hint_out, calls>>

compilerVars == <<op, tree, result>>

\* No entry point keeps state between calls: a behaviour is one call.
CompilePath ==
    /\ op = "none"
    /\ \E t \in PathTrees : op' = "path" /\ tree' = t /\ result' = path(t)
    /\ UNCHANGED <<stringVars, errorVars>>

CompileValues ==
    /\ op = "none"
    /\ \E t \in ValueNodes : op' = "values" /\ tree' = t /\ result' = values(t)
    /\ UNCHANGED <<stringVars, errorVars>>

CompileObjects ==
    /\ op = "none"
    /\ \E t \in ObjectsTrees : op' = "objects" /\ tree' = t /\ result' = objects(t)
    /\ UNCHANGED <<stringVars, errorVars>>

CompileBoolean ==
    /\ op = "none"
    /\ \E t \in BooleanNodes : op' = "boolean" /\ tree' = t /\ result' = boolean(t)
    /\ UNCHANGED <<stringVars, errorVars>>

CompileMutation ==
    /\ op = "none"
    /\ \E t \in MutationTrees : op' = "mutation" /\ tree' = t /\ result' = mutation(t)
    /\ UNCHANGED <<stringVars, errorVars>>

CompileExpression ==
    /\ op = "none"
    /\ \E t \in ExpressionTrees : op' = "expression" /\ tree' = t /\ result' = expression(t)
    /\ UNCHANGED <<stringVars, errorVars>>

\* No call made yet, and no StoryError constructed
Init ==
    /\ op = "none" /\ tree = NoNode /\ result = Idle
    /\ text = <<>> /\ item = Idle
    /\ error = [tag |-> "none", type |-> "Other", line |-> 1] /\ story = <<>>
    /\ error_code = "None" /\ last = "none" /\ hint_out = "" /\ calls = 0

-----------------------------------------------------------------------------
(* String templates: Objects.string on every short string body *)

Alphabet == {"{", "}", "a", "."}

Texts == SeqsUpTo(Alphabet, MaxLen)

CompileString ==
    /\ item.OBJECT = "py:idle"
    /\ \E s \in Texts : text' = s /\ item' = string(StringNode(s))
    /\ UNCHANGED <<compilerVars, errorVars>>

SpecString == Init /\ [][CompileString]_vars

-----------------------------------------------------------------------------
(* StoryError objects: construction, then any sequence of method calls *)

\* What Intention answers for a line of the story
Line(a, f) == [assignment |-> a, is_function |-> f]

Stories == {<<Line(TRUE, FALSE), Line(FALSE, TRUE)>>, <<Line(FALSE, FALSE), Line(TRUE, TRUE)>>}

ErrorTypes == {"UnexpectedToken", "UnexpectedCharacters", "Other"}

\* tag "none": the error has no 'error' attribute; "other": an unlisted value
Errors(st) ==
    [tag : Tags \cup {"none", "other"}, type : ErrorTypes, line : 1..Len(st)]

\* StoryError(error, story): error_code starts as None
InitError ==
    /\ op = "none" /\ tree = NoNode /\ result = Idle
    /\ text = <<>> /\ item = Idle
    /\ story \in Stories
    /\ error \in Errors(story)
    /\ error_code = "None"
    /\ last = "init"
    /\ hint_out = ""
    /\ calls = 0

Process ==
    /\ calls < MaxOps
    /\ error_code' = identify(error, story)
    /\ calls' = calls + 1
    /\ last' = "process"
    /\ UNCHANGED <<error, story, hint_out, compilerVars, stringVars>>

\* Mutant: message() takes the hint before it processes the error
Message_hint_before_process ==
    /\ calls < MaxOps
    /\ hint_out' = hint(error_code)
    /\ error_code' = identify(error, story)
    /\ calls' = calls + 1
    /\ last' = "message"
    /\ UNCHANGED <<error, story, compilerVars, stringVars>>

Message ==
    /\ calls < MaxOps
    /\ error_code' = identify(error, story)
    /\ calls' = calls + 1
    /\ hint_out' = hint(error_code')
    /\ last' = "message"
    /\ UNCHANGED <<error, story, compilerVars, stringVars>>

Hint ==
    /\ hint_out' = hint(error_code)
    /\ last' = "hint"
    /\ UNCHANGED <<error, story, error_code, calls, compilerVars, stringVars>>

SetError ==
    /\ \E e \in Errors(story) : error' = e
    /\ last' = "set"
    /\ UNCHANGED <<story, error_code, hint_out, calls, compilerVars, stringVars>>

NextError == Process \/ Message \/ Hint \/ SetError

SpecError == InitError /\ [][NextError]_vars

Next ==
    \/ CompilePath
    \/ CompileValues
    \/ CompileObjects
    \/ CompileBoolean
    \/ CompileMutation
    \/ CompileExpression

Spec == Init /\ [][Next]_vars

-----------------------------------------------------------------------------
(* Shapes the grammar produces *)

GoodString(t) ==
    /\ IsTree(t) /\ t.data = "string" /\ Len(t.children) = 1
    /\ t.children[1].tok
    /\ Len(t.children[1].value) >= 2
    /\ Head(t.children[1].value) = Quote
    /\ t.children[1].value[Len(t.children[1].value)] = Quote

RECURSIVE GoodPath(_), GoodValues(_)

GoodFragment(f) ==
    /\ IsTree(f) /\ Len(f.children) = 1
    /\ \/ f.children[1].tok
       \/ GoodString(f.children[1])
       \/ (IsTree(f.children[1]) /\ f.children[1].data = "path" /\ GoodPath(f.children[1]))

GoodFragments(t) == \A i \in 2..Len(t.children) : GoodFragment(t.children[i])

GoodPath(t) ==
    /\ IsTree(t) /\ Len(t.children) >= 1
    /\ t.children[1].tok
    /\ GoodFragments(t)

GoodEntry(e) ==
    /\ IsTree(e) /\ Len(e.children) = 2
    /\ \/ GoodString(e.children[1])
       \/ (IsTree(e.children[1]) /\ e.children[1].data = "path" /\ GoodPath(e.children[1]))
    /\ GoodValues(e.children[2])

GoodObjects(t) == IsTree(t) /\ \A i \in 1..Len(t.children) : GoodEntry(t.children[i])

GoodValues(t) ==
    /\ IsTree(t) /\ Len(t.children) >= 1
    /\ LET c == t.children[1]
       IN  IF c.tok THEN c.data = "NAME" /\ GoodFragments(t)
           ELSE IF c.data = "string" THEN GoodString(c)
           ELSE IF c.data \in {"boolean", "number", "types"}
               THEN Len(c.children) = 1 /\ c.children[1].tok
           ELSE IF c.data = "list" THEN \A i \in 1..Len(c.children) : GoodValues(c.children[i])
           ELSE IF c.data = "objects" THEN GoodObjects(c)
           ELSE FALSE

-----------------------------------------------------------------------------
(* Claims about the compiler *)

HasComparison(t) == ~IsNone(Child(t, 1))

\* C1 as stated: whichever grammar shape fired, Objects.expression returns a
\* one-element sequence, so position 0 of the result can be indexed.
C1_AlwaysOneElement ==
    op = "expression" => (result.OBJECT = "py:list" /\ Len(result.items) = 1)

\* C1 amended: a node with a path_value slot compiles to a one-element sequence
\* holding the bare compiled value (no comparison) or an Expression (with a
\* comparison); a node with values and operator slots compiles to a bare
\* Expression object that is not wrapped in a sequence.
C1_ExpressionShape ==
    op = "expression" =>
        IF ~IsNone(Slot(tree, "values"))
        THEN /\ result.OBJECT = "expression"
             /\ result.values = <<values(tree.children[1]), values(tree.children[3])>>
        ELSE /\ result.OBJECT = "py:list"
             /\ Len(result.items) = 1
             /\ IF HasComparison(tree)
                THEN /\ result.items[1].OBJECT = "expression"
                     /\ result.items[1].values =
                            <<values(tree.children[1].children[1]),
                              values(tree.children[3].children[1])>>
                ELSE result.items[1] = values(tree.children[1].children[1])

C1_Witness ==
    /\ op = "expression"
    /\ IsNone(Slot(tree, "values"))
    /\ HasComparison(tree)
    /\ result.OBJECT = "py:list"
    /\ result.items[1].expression = <<"{", "}", " ", ">", " ", "{", "}">>

RECURSIVE PathMatches(_, _)
PathMatches(t, r) ==
    /\ r.OBJECT = "path"
    /\ Len(r.paths) = Len(t.children)
    /\ Len(r.paths) >= 1
    /\ r.paths[1] = PyStr(t.children[1].value)
    /\ \A i \in 2..Len(t.children) :
           LET c == t.children[i].children[1]
               seg == r.paths[i]
           IN  IF c.tok THEN seg = PyStr(c.value)
               ELSE IF c.data = "string"
                   THEN /\ seg.OBJECT = "py:str"
                        /\ <<Quote>> \o seg.value \o <<Quote>> = c.children[1].value
               ELSE PathMatches(c, seg)

\* C5: a path node with a base identifier and n fragments compiles to a Path
\* of n + 1 segments in source order: the base text, then per fragment the
\* identifier text, the quoted text without its quotes, or the nested Path.
C5_PathSegments == (op = "path" /\ GoodPath(tree)) => PathMatches(tree, result)

C5_Witness ==
    /\ op = "path" /\ GoodPath(tree)
    /\ Len(tree.children) = 3
    /\ ~tree.children[2].children[1].tok /\ tree.children[2].children[1].data = "string"
    /\ ~tree.children[3].children[1].tok /\ tree.children[3].children[1].data = "path"
    /\ Len(tree.children[3].children[1].children) = 2
    /\ Len(result.paths) = 3

\* C6: for a CST shape the grammar could not have produced, compilation fails
\* with an error; it never returns an IR value.
C6_BadShapeFails ==
    /\ (op = "values" /\ ~GoodValues(tree)) => Raised(result)
    /\ (op = "path" /\ ~GoodPath(tree)) => Raised(result)
    /\ (op = "objects" /\ ~GoodObjects(tree)) => Raised(result)

\* C7: a dict literal with N entries compiles to exactly N (key, value) pairs
\* in declaration order, equal keys kept apart; a quoted-string key compiles as
\* a StringLiteral and any other key as a Path; each value is the compilation
\* of that entry's own value node.
C7_DictEntries ==
    (op = "objects" /\ GoodObjects(tree)) =>
        /\ result.OBJECT = "dict"
        /\ Len(result.items) = Len(tree.children)
        /\ \A i \in 1..Len(tree.children) :
               LET key == tree.children[i].children[1]
               IN  /\ result.items[i].OBJECT = "py:list"
                   /\ Len(result.items[i].items) = 2
                   /\ result.items[i].items[1] =
                          (IF key.data = "string" THEN string(key) ELSE path(key))
                   /\ result.items[i].items[1].OBJECT =
                          (IF key.data = "string" THEN "string" ELSE "path")
                   /\ result.items[i].items[2] = values(tree.children[i].children[2])

C7_Witness ==
    /\ op = "objects" /\ GoodObjects(tree)
    /\ Len(tree.children) = 2
    /\ tree.children[1].children[1] = tree.children[2].children[1]
    /\ tree.children[1].children[2] # tree.children[2].children[2]
    /\ Len(result.items) = 2
    /\ result.items[1].items[1] = result.items[2].items[1]

\* C8: Objects.boolean returns true exactly when the token text is "true".
C8_BooleanExact ==
    op = "boolean" =>
        /\ result.OBJECT = "py:bool"
        /\ result.value <=> (tree.children[1].value = <<"t", "r", "u", "e">>)

C8_Witness ==
    /\ op = "boolean"
    /\ tree.children[1].value = <<"T", "r", "u", "e">>
    /\ result = PyBool(FALSE)

-----------------------------------------------------------------------------
(* Claims about string templates *)

\* A placeholder occurrence starts at an opening brace that has a closing brace
\* after it and lies in no earlier occurrence.
IsStart(s, p) ==
    /\ s[p] = "{"
    /\ \E q \in (p + 1)..Len(s) : s[q] = "}"
    /\ ~\E o \in 1..(p - 1) : s[o] = "{" /\ \A k \in o..(p - 1) : s[k] # "}"

Starts(s) == {p \in 1..Len(s) : IsStart(s, p)}

CloseOf(s, p) == CHOOSE q \in (p + 1)..Len(s) : s[q] = "}" /\ \A k \in (p + 1)..(q - 1) : s[k] # "}"

NameAt(s, p) == SubSeq(s, p + 1, CloseOf(s, p) - 1)

\* The k-th smallest element of a set of numbers
Nth(S, k) == CHOOSE p \in S : Cardinality({o \in S : o < p}) = k - 1

Substitutions(it) == IF "values" \in DOMAIN it THEN it.values ELSE <<>>

Compiled == item.OBJECT = "string"

\* C2: Objects.string yields one substitution per placeholder occurrence of the
\* unquoted text, in occurrence order with duplicates kept, each a Path of one
\* segment equal to the text between the braces.
C2_OneSubstitutionPerPlaceholder ==
    Compiled =>
        /\ Len(Substitutions(item)) = Cardinality(Starts(text))
        /\ \A k \in 1..Cardinality(Starts(text)) :
               Substitutions(item)[k] =
                   [OBJECT |-> "path", paths |-> <<PyStr(NameAt(text, Nth(Starts(text), k)))>>]

C2_Witness ==
    /\ Compiled
    /\ text = <<"{", ".", "a", "}", "{", ".", "a">>
    /\ Len(item.values) = 1
    /\ item.values[1].paths = <<PyStr(<<".", "a">>)>>
    /\ item.string = <<"{", "}", "{", ".", "a">>

Bindings == {"const", "wrap"}

Bind(b, name) == IF b = "const" THEN <<"X">> ELSE <<"<">> \o name \o <<">">>

RECURSIVE SubstituteFrom(_, _, _)
SubstituteFrom(s, i, b) ==
    IF i > Len(s) THEN <<>>
    ELSE IF IsStart(s, i) THEN Bind(b, NameAt(s, i)) \o SubstituteFrom(s, CloseOf(s, i) + 1, b)
    ELSE <<s[i]>> \o SubstituteFrom(s, i + 1, b)

RECURSIVE FillFrom(_, _, _)
FillFrom(template, i, vals) ==
    IF i > Len(template) THEN <<>>
    ELSE IF StartsAt(template, Marker, i)
        THEN (IF vals = <<>> THEN <<"IndexError">>
              ELSE Head(vals) \o FillFrom(template, i + 2, Tail(vals)))
    ELSE <<template[i]>> \o FillFrom(template, i + 1, vals)

Filled(it, b) ==
    FillFrom(it.string, 1,
             [k \in 1..Len(Substitutions(it)) |-> Bind(b, Substitutions(it)[k].paths[1].value)])

\* C3: filling the markers of the compiled template left to right with the
\* bindings of the compiled substitutions gives the original text with every
\* placeholder occurrence replaced by its binding.
C3_TemplateRoundTrip ==
    Compiled => \A b \in Bindings : Filled(item, b) = SubstituteFrom(text, 1, b)

-----------------------------------------------------------------------------
(* Claims about StoryError *)

TagCode ==
    [t \in Tags |->
        CASE t = "service-name" -> "E0002"
          [] t = "arguments-noservice" -> "E0003"
          [] t = "return-outside" -> "E0004"
          [] t = "variables-backslash" -> "E0005"
          [] t = "variables-dash" -> "E0006"]

Classified(e, line) ==
    IF e.tag \in Tags THEN TagCode[e.tag]
    ELSE IF e.type = "UnexpectedToken" /\ line.assignment THEN "E0007"
    ELSE IF e.type = "UnexpectedCharacters" /\ line.is_function THEN "E0008"
    ELSE "E0001"

\* C9: identify gives every error exactly one code: the code of its tag when it
\* carries one of the five tags, whatever its type and the line's intention;
\* otherwise E0007 for an UnexpectedToken on an assignment line, E0008 for an
\* UnexpectedCharacters on a function line, and E0001 in every remaining case.
C9_IdentifyCodes ==
    last \in {"process", "message"} => error_code = Classified(error, story[error.line])

C9_Witness ==
    /\ last = "process"
    /\ error.tag = "variables-dash" /\ error.type = "UnexpectedToken"
    /\ story[error.line].assignment
    /\ error_code = "E0006"

\* C10: error_code is None from construction until the first process() or
\* message(); every message() runs process() exactly once and before hint(), so
\* its hint is the hint of the code identify gives for the current error and
\* error_code is that code when it returns.
C10_MessageProcessesFirst ==
    /\ [](calls = 0 => error_code = "None")
    /\ [][last' = "message" =>
            /\ calls' = calls + 1
            /\ error_code' = identify(error, story)
            /\ hint_out' = ErrorCodes[identify(error, story)]]_vars

C10_Witness ==
    /\ last = "message"
    /\ calls = 2
    /\ error_code = "E0007"
    /\ hint_out = "Missing value after ="

=============================================================================
